---- MODULE Spec2Model ----
(***************************************************************************)
(* Polling-and-delivery pipeline of cotel-backend:                         *)
(*   jobs/subscriptions_runner.py  scheduler (lease) + subscription        *)
(*                                 processor                               *)
(*   jobs/notifications_runner.py  notification reservation / dispatch     *)
(*                                 and message formatting                  *)
(* Time is counted in whole minutes.  Strings are modelled by their        *)
(* lengths where only the length matters (message formatting).             *)
(***************************************************************************)
EXTENDS Integers, Sequences, FiniteSets, TLC

(***************************************************************************)
(* Bounds of the model.                                                    *)
(***************************************************************************)
MaxTime == 6
MaxMsgs == 2
MaxMatches == 2

(***************************************************************************)
(* Program constants.                                                      *)
(***************************************************************************)
BATCH_SIZE == 20
EVENTS_READ_LIMIT == 1000
LEASE_MINUTES == 5
RETRY_MINUTES == 2

\* A NULL column / Python None.  Timestamps and message ids of the model
\* start at 1, so 0 is below every real value (ORDER BY ... NULLS FIRST) and
\* is falsy exactly as None is in "if last_message_id:".
NULL == 0

Subs == {1, 2}
Insts == {"A", "B"}
SubTypes == {"events", "digest"}

VARIABLES
    clock,            \* wall clock (minutes)
    chat,             \* the monitored chat: chat[k] is the date of message id k
    subscription,     \* table subscriptions: id -> row
    state,            \* table subscription_state: subscription_id -> row
    row_lock,         \* FOR UPDATE row locks on subscription_state rows
    match_events,     \* table match_events, rows in id order
    w,                \* scheduler/processor instances (one run_tick each)
    lease,            \* history: last reservation of each subscription (its
                      \* time, the cursor and success time it found, and
                      \* whether a result has been written since)
    running,          \* the scheduler instances that are deployed
    digest_events,    \* table digest_events, rows in id order
    bot_user_link,    \* table bot_user_link, rows in id order
    d,                \* dispatcher instances (one notifications run_tick each)
    send_log,         \* history: the calls made to the Delivery Adapter
    fmt               \* one application of a message formatter

vars == <<clock, chat, subscription, state, row_lock, match_events, w, lease,
          running, digest_events, bot_user_link, d, send_log, fmt>>

\* What the scheduler and processor leave alone, and what the dispatcher does.
dispatch_vars == <<digest_events, bot_user_link, d, send_log, fmt>>
poll_vars == <<clock, chat, state, row_lock, w, lease, running>>

\* The greatest element.  The first conjunct follows from the second; it
\* spares the scan of S for every x whose successor is in S.
Max(S) == CHOOSE x \in S : (x + 1) \notin S /\ \A y \in S : y <= x
Min(S) == CHOOSE x \in S : \A y \in S : x <= y

SeqsUpTo(S, n) == UNION {[1..k -> S] : k \in 0..n}

Range(q) == {q[k] : k \in DOMAIN q}

(***************************************************************************)
(* Rows.                                                                   *)
(***************************************************************************)
SubscriptionState ==
    [last_message_id |-> NULL, last_checked_at |-> NULL,
     last_success_at |-> NULL, next_run_at |-> NULL]

MatchEvent(id, sub_id, mid) ==
    [id |-> id, subscription_id |-> sub_id, message_id |-> mid,
     notify_status |-> "queued"]

\* status and last_error are the health fields (last_error: the length of
\* the text, NULL when there is none).
Subscription(type, freq, active) ==
    [subscription_type |-> type, frequency_minutes |-> freq,
     is_active |-> active, owner_user_id |-> 1,
     status |-> "ok", last_error |-> NULL]

DigestEvent(id, sub_id, end_id) ==
    [id |-> id, subscription_id |-> sub_id, end_message_id |-> end_id,
     notify_status |-> "queued"]

BotUserLink(id, owner, blocked) ==
    [id |-> id, owner_user_id |-> owner, telegram_chat_id |-> 100 + id,
     is_blocked |-> blocked]

\* The deployments of the model.  Subscription 1 is polled at the shortest
\* interval the API accepts (schemas/subscriptions.py: ge=5), subscription 2
\* hourly.  Either two instances race for one active subscription, or one
\* instance works through a batch of two, or one instance polls a
\* subscription whose stored mode is none of the modes the code names (the
\* column is a free String(30)).
Deployments ==
    {[subscription |-> [s \in Subs |-> IF s = 1 THEN Subscription(t, 5, TRUE)
                                        ELSE Subscription("events", 60, FALSE)],
      running |-> Insts] : t \in SubTypes}
    \cup
    {[subscription |-> [s \in Subs |-> IF s = 1 THEN Subscription(t[1], 5, TRUE)
                                        ELSE Subscription(t[2], 60, TRUE)],
      running |-> {"A"}] : t \in (SubTypes \X SubTypes) \ {<<"digest", "digest">>}}
    \cup
    {[subscription |-> [s \in Subs |-> IF s = 1 THEN Subscription("alerts", 5, TRUE)
                                        ELSE Subscription("events", 60, FALSE)],
      running |-> {"A"}]}

\* No formatter is being applied.
NoFormat == [fn |-> "none"]

\* locks: the event rows locked by the instance's open transaction.
IdleDispatcher ==
    [pc |-> "idle", ids |-> {}, queue |-> <<>>, owned |-> {}, exit_code |-> 0,
     crashes |-> 0, done |-> {}, locks |-> {}]

\* The unit of work of a processing session: per subscription, the message
\* ids of the MatchEvent rows added with db.add and not yet flushed, and the
\* state row as loaded and as assigned.
NoPending == [s \in Subs |-> <<>>]
NoChanges ==
    [s \in Subs |-> [loaded |-> SubscriptionState, new |-> SubscriptionState]]

\* exit_code is the value the instance's last run_tick returned, or the value
\* its running tick would return now.
IdleWorker ==
    [pc |-> "idle", now |-> NULL, due |-> <<>>, st |-> SubscriptionState,
     msgs |-> {}, matches |-> <<>>, err |-> "none", exit_code |-> 0,
     pending |-> NoPending, changes |-> NoChanges]

(***************************************************************************)
(* _reserve_due_subscriptions: the SELECT ... FOR UPDATE SKIP LOCKED.      *)
(***************************************************************************)
\* The SELECT without its row lock.
NeverLocked(s) == FALSE

\* skip_locked=True: a row locked by another transaction is left out.
RowLocked(s) == row_lock[s] # "none"

IsDueRow(s, now_utc) ==
    /\ subscription[s].is_active
    /\ \/ state[s].next_run_at = NULL
       \/ state[s].next_run_at <= now_utc

\* ORDER BY subscription_id ASC alone.
ById(a, b) == a < b

\* ORDER BY next_run_at ASC NULLS FIRST, subscription_id ASC
Before(a, b) ==
    \/ state[a].next_run_at < state[b].next_run_at
    \/ state[a].next_run_at = state[b].next_run_at /\ a < b

\* The rows of S (ids 1..n of the table) sorted in that order.
Ordered(S) ==
    SortSeq(SelectSeq([k \in 1..Cardinality(DOMAIN state) |-> k],
                      LAMBDA s : s \in S),
            Before)

Limit(q, n) == IF Len(q) <= n THEN q ELSE SubSeq(q, 1, n)

DueRows(now_utc) ==
    Limit(Ordered({s \in DOMAIN state : IsDueRow(s, now_utc) /\ ~RowLocked(s)}),
          BATCH_SIZE)

\* run_tick takes now_utc and opens the reservation transaction; the rows
\* selected are locked until the transaction ends.
SelectDue(i) ==
    /\ i \in running
    /\ w[i].pc = "idle"
    /\ LET rows == DueRows(clock) IN
        /\ rows # <<>>
        /\ w' = [w EXCEPT ![i] = [IdleWorker EXCEPT
                    !.pc = "reserving", !.now = clock, !.due = rows]]
        /\ row_lock' = [s \in DOMAIN row_lock |->
                          IF s \in Range(rows) THEN i ELSE row_lock[s]]
    /\ UNCHANGED <<clock, chat, subscription, state, match_events, lease,
                   running, dispatch_vars>>

\* The stamp without the lease.
StampOnly(row, now_utc) == [row EXCEPT !.last_checked_at = now_utc]

\* A reservation that moves the next run an hour ahead, a usual interval.
LeaseOfAnHour(row, now_utc) ==
    [row EXCEPT !.last_checked_at = now_utc, !.next_run_at = now_utc + 60]

\* A reservation that also stamps the success time.
StampAsSuccess(row, now_utc) ==
    [row EXCEPT !.last_checked_at = now_utc,
                !.last_success_at = now_utc,
                !.next_run_at = now_utc + LEASE_MINUTES]

\* Lines 70-79: stamp every selected row, commit, return the ids.
ReserveRow(row, now_utc) ==
    [row EXCEPT !.last_checked_at = now_utc,
                !.next_run_at = now_utc + LEASE_MINUTES]

\* The error reported after the stamps have been written.
FailsAfterStamping(i) ==
    /\ i \in running
    /\ w[i].pc \in {"idle", "reserving"}
    /\ w' = [w EXCEPT ![i] = [IdleWorker EXCEPT !.exit_code = 2]]
    /\ row_lock' = [s \in Subs |-> IF row_lock[s] = i THEN "none" ELSE row_lock[s]]
    /\ state' = [s \in Subs |->
                   IF s \in Range(w[i].due)
                   THEN [state[s] EXCEPT !.last_checked_at = w[i].now,
                                         !.next_run_at = w[i].now + LEASE_MINUTES]
                   ELSE state[s]]
    /\ UNCHANGED <<clock, chat, subscription, match_events, lease,
                   running, dispatch_vars>>

\* run_tick lines 299-303: a storage error (SQLAlchemyError) in the select, in
\* the flush of the stamps or in the commit of the reservation.  The
\* transaction is rolled back, which frees its row locks, and run_tick
\* returns 2 without processing anything.
ReservationFails(i) ==
    /\ i \in running
    /\ w[i].pc \in {"idle", "reserving"}
    /\ w' = [w EXCEPT ![i] = [IdleWorker EXCEPT !.exit_code = 2]]
    /\ row_lock' = [s \in Subs |-> IF row_lock[s] = i THEN "none" ELSE row_lock[s]]
    /\ UNCHANGED <<clock, chat, subscription, state, match_events, lease,
                   running, dispatch_vars>>

\* A reservation that goes on to the processing inside its transaction.
KeepsRowLocks(i) ==
    /\ w[i].pc = "reserving"
    /\ state' = [s \in Subs |->
                   IF s \in Range(w[i].due)
                   THEN ReserveRow(state[s], w[i].now) ELSE state[s]]
    /\ lease' = [s \in Subs |->
                   IF s \in Range(w[i].due)
                   THEN [at |-> w[i].now, written |-> FALSE,
                         cursor |-> state[s].last_message_id,
                         success |-> state[s].last_success_at]
                   ELSE lease[s]]
    /\ w' = [w EXCEPT ![i].pc = "fetch"]
    /\ UNCHANGED <<clock, chat, subscription, match_events, running,
                   row_lock, dispatch_vars>>

\* Lines 70-79 and the end of "async with db.begin()": the stamps are
\* committed and the row locks of the transaction released.
CommitReservation(i) ==
    /\ w[i].pc = "reserving"
    /\ state' = [s \in DOMAIN state |->
                   IF s \in Range(w[i].due)
                   THEN ReserveRow(state[s], w[i].now) ELSE state[s]]
    /\ row_lock' = [s \in DOMAIN row_lock |->
                      IF row_lock[s] = i THEN "none" ELSE row_lock[s]]
    /\ lease' = [s \in DOMAIN lease |->
                   IF s \in Range(w[i].due)
                   THEN [at |-> w[i].now, written |-> FALSE,
                         cursor |-> state[s].last_message_id,
                         success |-> state[s].last_success_at]
                   ELSE lease[s]]
    /\ w' = [w EXCEPT ![i].pc = "fetch"]
    /\ UNCHANGED <<clock, chat, subscription, match_events, running,
                   dispatch_vars>>

(***************************************************************************)
(* Message Source Adapter: fetch_chat_messages_for_subscription.           *)
(* iter_messages yields the newest `limit` messages whose id exceeds       *)
(* min_id, newest first; the loop stops at the first message older than    *)
(* since_dt; the result is returned oldest first.                          *)
(***************************************************************************)
\* The ids of the chat are 1..Len(chat): the ids above min_id, and of these
\* only the `limit` newest, which are the ids above Len(chat) - limit.
NewestFirst(min_id, limit) ==
    LET floor == IF Len(chat) - limit > min_id THEN Len(chat) - limit
                 ELSE min_id
    IN  (floor + 1)..Len(chat)

FetchMessages(since_dt, min_id, limit) ==
    LET page == NewestFirst(min_id, limit)
        old == {j \in page : chat[j] < since_dt}
    IN  IF old = {} THEN page ELSE {k \in page : \A j \in old : j < k}

(***************************************************************************)
(* _process_one_subscription.                                              *)
(***************************************************************************)
Current(i) == Head(w[i].due)

\* Lines 89-91.
SubType(s) ==
    IF subscription[s].subscription_type = "summary"
    THEN "digest" ELSE subscription[s].subscription_type

\* Lines 96-97 (digest: time window, no id floor) and 179-184 (events:
\* cursor-first, else a window of one interval back from now).
SinceDt(s, st, now_utc) ==
    IF SubType(s) # "digest" /\ st.last_message_id # NULL
    THEN NULL
    ELSE now_utc - subscription[s].frequency_minutes

MinId(s, st) ==
    IF SubType(s) # "digest" THEN st.last_message_id ELSE NULL

\* Lines 203-208 (no messages) and 281-289: the new values of the state row.
SuccessRow(st, msgs, now_utc, freq_min) ==
    [st EXCEPT !.last_message_id = IF msgs = {} THEN @ ELSE Max(msgs),
               !.last_success_at = now_utc,
               !.last_checked_at = now_utc,
               !.next_run_at = now_utc + freq_min]

\* The assignments to the loaded state row, kept in the unit of work.
Assign(wk, s, st, msgs) ==
    [wk.changes EXCEPT ![s] =
        [loaded |-> st,
         new |-> SuccessRow(st, msgs, wk.now, subscription[s].frequency_minutes)]]

\* Lines 83-116 / 83-208: load the subscription and its state row (the
\* session begins its transaction here), then call the adapter, which
\* returns or raises (FetchFails: the source is down).  In digest
\* mode the next statement is "async with db.begin()" on the session that
\* already has a transaction begun, which raises InvalidRequestError.
FetchFails(i) ==
    /\ w[i].pc = "fetch"
    /\ w' = [w EXCEPT ![i].pc = "failed", ![i].st = state[Current(i)],
                      ![i].err = "FetchError"]
    /\ UNCHANGED <<clock, chat, subscription, state, row_lock, match_events,
                   lease, running, dispatch_vars>>

Fetch(i) ==
    /\ w[i].pc = "fetch"
    /\ LET s == Current(i)
           st == state[s]
           got == FetchMessages(SinceDt(s, st, w[i].now), MinId(s, st),
                                EVENTS_READ_LIMIT)
       IN  \/ FetchFails(i)
           \/ /\ SubType(s) = "digest"
              /\ w' = [w EXCEPT ![i].pc = "failed", ![i].st = st,
                                ![i].err = "InvalidRequestError"]
           \/ /\ SubType(s) # "digest"
              /\ w' = [w EXCEPT ![i].pc = IF got = {} THEN "commit" ELSE "analyze",
                                ![i].st = st, ![i].msgs = got,
                                ![i].changes = IF got = {}
                                               THEN Assign(w[i], s, st, got)
                                               ELSE @]
    /\ UNCHANGED <<clock, chat, subscription, state, row_lock, match_events,
                   lease, running, dispatch_vars>>

\* Lines 223-289: the Analysis Adapter returns any list of matches (ids it
\* was not given and repeated ids included), or fails; every match is added
\* to the session as a MatchEvent and the state row is assigned.
MatchLists == SeqsUpTo(1..MaxMsgs, MaxMatches)

Analyze(i) ==
    /\ w[i].pc = "analyze"
    /\ LET assigned == Assign(w[i], Current(i), w[i].st, w[i].msgs) IN
        \/ w' = [w EXCEPT ![i].pc = "failed", ![i].err = "AnalysisError"]
        \/ \E m \in MatchLists :
              w' = [w EXCEPT ![i].pc = "commit", ![i].matches = m,
                             ![i].pending[Current(i)] = @ \o m,
                             ![i].changes = assigned]
    /\ UNCHANGED <<clock, chat, subscription, state, row_lock, match_events,
                   lease, running, dispatch_vars>>

\* Lines 243-266: where the excerpt and the timestamp of the MatchEvent built
\* for match id mid come from.  src = msg_by_id.get(mid) is a fetched
\* message, which always has a text and a timestamp, or None, and then the
\* match item's own excerpt and message_ts are taken (the author is None).
FieldsFrom(msgs, mid) == IF mid \in msgs THEN "source" ELSE "model"

\* match_events without its unique constraint.
NoUniqueConstraint(table, s, mids) == FALSE

\* UniqueConstraint("subscription_id", "message_id"): the flush of the
\* pending MatchEvent rows (plain INSERTs) is rejected when a key is already
\* stored or occurs twice among the pending rows.
UniqueViolation(table, s, mids) ==
    \/ \E k \in DOMAIN mids : \E r \in DOMAIN table :
          table[r].subscription_id = s /\ table[r].message_id = mids[k]
    \/ \E k, l \in DOMAIN mids : k # l /\ mids[k] = mids[l]

RECURSIVE InsertAll(_, _, _)
InsertAll(table, s, mids) ==
    IF mids = <<>> THEN table
    ELSE InsertAll(Append(table, MatchEvent(Len(table) + 1, s, Head(mids))),
                   s, Tail(mids))

\* The unit of work writes the attributes whose value differs from the
\* value loaded at the start of processing.
Flush(row, loaded, new) ==
    [f \in DOMAIN row |-> IF new[f] # loaded[f] THEN new[f] ELSE row[f]]

\* run_tick lines 311-318 / 343: the next reserved subscription, or return.
Advance(wk) ==
    IF Len(wk.due) <= 1 THEN [IdleWorker EXCEPT !.exit_code = wk.exit_code]
    ELSE [IdleWorker EXCEPT !.pc = "fetch", !.now = wk.now, !.due = Tail(wk.due),
                            !.exit_code = wk.exit_code,
                            !.pending = wk.pending, !.changes = wk.changes]

\* After db.commit() the unit of work is empty.
Committed(wk) == [wk EXCEPT !.pending = NoPending, !.changes = NoChanges]

\* A handler that leaves the session as the failed attempt left it.
NoRollback(wk) == wk

\* run_tick line 326, db.rollback(): the pending rows and the assignments of
\* the session are discarded.
Rollback(wk) == [wk EXCEPT !.pending = NoPending, !.changes = NoChanges]

NoteWrite(s) == [lease EXCEPT ![s].written = TRUE]

\* The flush of a unit of work: the pending rows of every subscription are
\* inserted, the assigned state rows are written.
RECURSIVE InsertPending(_, _, _)
InsertPending(table, pending, S) ==
    IF S = {} THEN table
    ELSE LET s == Min(S)
         IN  InsertPending(InsertAll(table, s, pending[s]), pending, S \ {s})

Touched(wk) ==
    {s \in Subs : wk.pending[s] # <<>> \/ wk.changes[s].new # wk.changes[s].loaded}

\* run_tick line 317: commit of the session's unit of work.
Commit(i) ==
    /\ w[i].pc = "commit"
    /\ \A s \in Touched(w[i]) : row_lock[s] = "none"
    /\ IF \E s \in Subs : UniqueViolation(match_events, s, w[i].pending[s])
       THEN /\ w' = [w EXCEPT ![i].pc = "failed", ![i].err = "IntegrityError"]
            /\ UNCHANGED <<state, match_events, lease>>
       ELSE /\ match_events' = InsertPending(match_events, w[i].pending, Subs)
            /\ state' = [s \in Subs |->
                           Flush(state[s], w[i].changes[s].loaded,
                                 w[i].changes[s].new)]
            /\ lease' = [s \in Subs |->
                           IF s \in Touched(w[i]) THEN NoteWrite(s)[s]
                           ELSE lease[s]]
            /\ w' = [w EXCEPT ![i] = Advance(Committed(@))]
    /\ UNCHANGED <<clock, chat, subscription, row_lock, running, dispatch_vars>>

\* run_tick line 317: the flush or the commit fails with a storage error;
\* nothing of the unit of work is stored.
CommitFails(i) ==
    /\ w[i].pc = "commit"
    /\ w' = [w EXCEPT ![i].pc = "failed", ![i].err = "SQLAlchemyError"]
    /\ UNCHANGED <<clock, chat, subscription, state, row_lock, match_events,
                   lease, running, dispatch_vars>>

\* A retry that puts the row first in line: as if it had never run.
RetryAtOnce(row, now_utc) == [row EXCEPT !.next_run_at = NULL]

\* A retry write that also stamps the success time.
RetryAndStamp(row, now_utc) ==
    [row EXCEPT !.next_run_at = now_utc + RETRY_MINUTES,
                !.last_success_at = now_utc]

\* run_tick lines 320-344: exit_code = 1, rollback, then the short retry in a
\* transaction of its own.
RetryRow(row, now_utc) == [row EXCEPT !.next_run_at = now_utc + RETRY_MINUTES]

FailAndRetry(i) ==
    /\ w[i].pc = "failed"
    /\ LET s == Current(i) IN
        /\ row_lock[s] = "none"
        /\ state' = [state EXCEPT ![s] = RetryRow(@, w[i].now)]
        /\ lease' = NoteWrite(s)
    /\ w' = [w EXCEPT ![i] = Advance(Rollback([@ EXCEPT !.exit_code = 1]))]
    /\ UNCHANGED <<clock, chat, subscription, row_lock, match_events, running,
                   dispatch_vars>>

\* run_tick lines 343-344: the retry transaction itself fails with a storage
\* error, which is only printed; the row keeps the value it had.
RetryFails(i) ==
    /\ w[i].pc = "failed"
    /\ w' = [w EXCEPT ![i] = Advance(Rollback([@ EXCEPT !.exit_code = 1]))]
    /\ UNCHANGED <<clock, chat, subscription, state, row_lock, match_events,
                   lease, running, dispatch_vars>>

\* The process dies: its open transaction is rolled back, its locks go.
Crash(i) ==
    /\ w[i].pc # "idle"
    /\ w' = [w EXCEPT ![i] = IdleWorker]
    /\ row_lock' = [s \in Subs |-> IF row_lock[s] = i THEN "none" ELSE row_lock[s]]
    /\ UNCHANGED <<clock, chat, subscription, state, match_events, lease,
                   running, dispatch_vars>>

(***************************************************************************)
(* Wall clock and the chat.                                                *)
(***************************************************************************)
\* A minute passes.  The reservation transaction holds its row locks for
\* milliseconds (it makes no external call), so it never spans a minute.
Tick ==
    /\ clock < MaxTime
    /\ \A i \in Insts : w[i].pc # "reserving"
    /\ clock' = clock + 1
    /\ UNCHANGED <<chat, subscription, state, row_lock, match_events, w,
                   lease, running, dispatch_vars>>

PostMessage ==
    /\ Len(chat) < MaxMsgs
    /\ chat' = Append(chat, clock)
    /\ UNCHANGED <<clock, subscription, state, row_lock, match_events, w,
                   lease, running, dispatch_vars>>

Init ==
    /\ clock = 1
    /\ chat = <<>>
    /\ \E dep \in Deployments :
          subscription = dep.subscription /\ running = dep.running
    /\ state = [s \in Subs |-> SubscriptionState]
    /\ row_lock = [s \in Subs |-> "none"]
    /\ match_events = <<>>
    /\ w = [i \in Insts |-> IdleWorker]
    /\ lease = [s \in Subs |-> [at |-> NULL, written |-> FALSE,
                                 cursor |-> NULL, success |-> NULL]]
    /\ digest_events = <<>>
    /\ bot_user_link = <<>>
    /\ d = [i \in Insts |-> IdleDispatcher]
    /\ send_log = {}
    /\ fmt = NoFormat

Next ==
    \/ Tick
    \/ PostMessage
    \/ \E i \in Insts : SelectDue(i)
    \/ \E i \in Insts : ReservationFails(i)
    \/ \E i \in Insts : CommitReservation(i)
    \/ \E i \in Insts : Fetch(i)
    \/ \E i \in Insts : Analyze(i)
    \/ \E i \in Insts : Commit(i)
    \/ \E i \in Insts : CommitFails(i)
    \/ \E i \in Insts : FailAndRetry(i)
    \/ \E i \in Insts : RetryFails(i)
    \/ \E i \in Insts : Crash(i)

Spec == Init /\ [][Next]_vars

(***************************************************************************)
(* A chat in which messages arrive in bursts, so that more messages than   *)
(* one read returns can accumulate between two ticks of a subscription.    *)
(***************************************************************************)
MaxSeen == 1
MaxExtra == 2

MaxBacklog == EVENTS_READ_LIMIT + MaxExtra

BurstSizes == {1, EVENTS_READ_LIMIT, EVENTS_READ_LIMIT + 1}

\* n messages arrive within one minute.  The chat holds at most MaxSeen
\* messages before the last burst, and at most MaxBacklog in all.
PostBurst(n) ==
    /\ Len(chat) <= MaxSeen
    /\ Len(chat) + n <= MaxBacklog
    /\ chat' = chat \o [k \in 1..n |-> clock]
    /\ UNCHANGED <<clock, subscription, state, row_lock, match_events, w,
                   lease, running, dispatch_vars>>

\* One instance polls one events subscription at the shortest interval.
InitBacklog ==
    /\ clock = 1
    /\ chat = <<>>
    /\ subscription = [s \in Subs |-> IF s = 1 THEN Subscription("events", 5, TRUE)
                                       ELSE Subscription("events", 60, FALSE)]
    /\ running = {"A"}
    /\ state = [s \in Subs |-> SubscriptionState]
    /\ row_lock = [s \in Subs |-> "none"]
    /\ match_events = <<>>
    /\ w = [i \in Insts |-> IdleWorker]
    /\ lease = [s \in Subs |-> [at |-> NULL, written |-> FALSE,
                                 cursor |-> NULL, success |-> NULL]]
    /\ digest_events = <<>>
    /\ bot_user_link = <<>>
    /\ d = [i \in Insts |-> IdleDispatcher]
    /\ send_log = {}
    /\ fmt = NoFormat

NextBacklog ==
    \/ Tick
    \/ \E n \in BurstSizes : PostBurst(n)
    \/ \E i \in Insts : SelectDue(i)
    \/ \E i \in Insts : ReservationFails(i)
    \/ \E i \in Insts : CommitReservation(i)
    \/ \E i \in Insts : Fetch(i)
    \/ \E i \in Insts : Analyze(i)
    \/ \E i \in Insts : Commit(i)
    \/ \E i \in Insts : CommitFails(i)
    \/ \E i \in Insts : FailAndRetry(i)
    \/ \E i \in Insts : RetryFails(i)
    \/ \E i \in Insts : Crash(i)

SpecBacklog == InitBacklog /\ [][NextBacklog]_vars

(***************************************************************************)
(* A store with more subscriptions than one reservation takes: BATCH_SIZE  *)
(* + Leftover rows, some never run (next_run_at null), some due at         *)
(* different times, some not yet due, some inactive.  The two instances    *)
(* reserve one after the other inside open transactions, so the second     *)
(* finds the rows of the first locked.                                     *)
(***************************************************************************)
Leftover == 2

ManySubs == 1..(BATCH_SIZE + Leftover)

InitR ==
    /\ clock = 4
    /\ chat = <<>>
    /\ \E n0 \in {0, 1, 5, 21} : \E k \in {1, 3, 5} : \E m \in {2, 3, 4, 7} :
          state = [s \in ManySubs |->
                     [SubscriptionState EXCEPT !.next_run_at =
                         IF s > BATCH_SIZE + Leftover - n0 THEN NULL
                         ELSE 1 + ((s * k) % m)]]
    /\ \E q \in {0, 5} :
          subscription = [s \in ManySubs |->
                            Subscription("events", 5, q = 0 \/ s % q # 0)]
    /\ running = Insts
    /\ row_lock = [s \in ManySubs |-> "none"]
    /\ match_events = <<>>
    /\ w = [i \in Insts |-> IdleWorker]
    /\ lease = [s \in ManySubs |-> [at |-> NULL, written |-> FALSE,
                                 cursor |-> NULL, success |-> NULL]]
    /\ digest_events = <<>>
    /\ bot_user_link = <<>>
    /\ d = [i \in Insts |-> IdleDispatcher]
    /\ send_log = {}
    /\ fmt = NoFormat

NextR == \E i \in Insts : SelectDue(i)

SpecR == InitR /\ [][NextR]_vars

(***************************************************************************)
(* The same store polled by one instance while the Message Source is down: *)
(* all BATCH_SIZE + Leftover subscriptions are active and due at once,     *)
(* every fetch fails and run_tick schedules the short retry, so the rows   *)
(* that were taken come back due RETRY_MINUTES later.                      *)
(***************************************************************************)
InitQ ==
    /\ clock = 4
    /\ chat = <<>>
    /\ \E n0 \in {0, 2} :
          state = [s \in ManySubs |->
                     [SubscriptionState EXCEPT !.next_run_at =
                         IF s <= n0 THEN NULL ELSE 1 + (s % 4)]]
    /\ subscription = [s \in ManySubs |-> Subscription("events", 5, TRUE)]
    /\ running = {"A"}
    /\ row_lock = [s \in ManySubs |-> "none"]
    /\ match_events = <<>>
    /\ w = [i \in Insts |-> IdleWorker]
    /\ lease = [s \in ManySubs |-> [at |-> NULL, written |-> FALSE,
                                     cursor |-> NULL, success |-> NULL]]
    /\ digest_events = <<>>
    /\ bot_user_link = <<>>
    /\ d = [i \in Insts |-> IdleDispatcher]
    /\ send_log = {}
    /\ fmt = NoFormat

\* The steps of one instance: its tick, and the next one when it returned.
Poller(i) ==
    \/ SelectDue(i)
    \/ CommitReservation(i)
    \/ FetchFails(i)
    \/ FailAndRetry(i)

NextQ == Tick \/ \E i \in Insts : Poller(i)

\* Scheduler ticks are repeated fairly: an instance that can take a step of
\* its tick, or start a tick, eventually does.  Time is not forced to pass.
FairSpecQ ==
    InitQ /\ [][NextQ]_vars /\ \A i \in Insts : WF_vars(Poller(i))

(***************************************************************************)
(* notifications_runner.py: reservation and dispatch of queued events.     *)
(* A pipeline p is "match" (match_events) or "digest" (digest_events).     *)
(***************************************************************************)
BATCH_LIMIT == 200

Pipelines == {"match", "digest"}

Table(p) == IF p = "match" THEN match_events ELSE digest_events

Row(p, id) == Table(p)[CHOOSE r \in DOMAIN Table(p) : Table(p)[r].id = id]

\* SELECT id ... WHERE notify_status = 'queued' ORDER BY id ASC LIMIT n
OldestQueued(table, n) ==
    LET q == {table[r].id : r \in {x \in DOMAIN table :
                                      table[x].notify_status = "queued"}}
    IN  {id \in q : Cardinality({j \in q : j < id}) < n}

\* UPDATE ... WHERE id IN (ids) AND notify_status = 'queued'
StillQueued(table, ids) ==
    {r \in DOMAIN table : table[r].id \in ids /\ table[r].notify_status = "queued"}

SetStatus(table, rows, status) ==
    [r \in DOMAIN table |->
        IF r \in rows THEN [table[r] EXCEPT !.notify_status = status] ELSE table[r]]

\* An UPDATE that marks every row in status sending.
MarkAllSending(table, ids, status) ==
    SetStatus(table, {r \in DOMAIN table : table[r].notify_status = "sending"},
              status)

\* _mark_match_events / _mark_digest_events: UPDATE ... WHERE id IN (ids)
MarkEvents(table, ids, status) ==
    SetStatus(table, {r \in DOMAIN table : table[r].id \in ids}, status)

\* The link with the greatest id, blocked or not.
LatestLink(owner_user_id) ==
    LET own == {r \in DOMAIN bot_user_link :
                    bot_user_link[r].owner_user_id = owner_user_id}
        last == CHOOSE r \in own :
                    \A x \in own : bot_user_link[x].id <= bot_user_link[r].id
    IN  IF own = {} THEN NULL ELSE bot_user_link[last].telegram_chat_id

\* _get_dest_chat_id: the owner's non-blocked link with the greatest id.
GetDestChatId(owner_user_id) ==
    LET live == {r \in DOMAIN bot_user_link :
                    /\ bot_user_link[r].owner_user_id = owner_user_id
                    /\ ~bot_user_link[r].is_blocked}
        last == CHOOSE r \in live :
                    \A x \in live : bot_user_link[x].id <= bot_user_link[r].id
    IN  IF live = {} THEN NULL ELSE bot_user_link[last].telegram_chat_id

\* run_tick lines 365-366 and 410-413: the subscription's mode fits the table.
TypeMatches(p, s) ==
    IF p = "match"
    THEN subscription[s].subscription_type = "events"
    ELSE subscription[s].subscription_type \in {"summary", "digest"}

\* A grouping that makes every loaded row a group of its own.
OnePerEvent(p, ids) == {{id} : id \in ids}

\* _load_*_with_subscriptions and the grouping of run_tick: the loaded rows
\* in (subscription_id, id) order; match events of one (owner, subscription)
\* form one group, every digest event is a group of its own.
GroupKeys(p, ids) ==
    IF p = "match"
    THEN {{id \in ids : Row(p, id).subscription_id = s} : s \in Subs} \ {{}}
    ELSE {{id} : id \in ids}

GroupBefore(p, g, h) ==
    LET a == Row(p, Min(g))
        b == Row(p, Min(h))
    IN  \/ a.subscription_id < b.subscription_id
        \/ a.subscription_id = b.subscription_id /\ a.id < b.id

RECURSIVE GroupSeq(_, _)
GroupSeq(p, G) ==
    IF G = {} THEN <<>>
    ELSE LET f == CHOOSE g \in G : \A h \in G \ {g} : GroupBefore(p, g, h)
         IN  <<f>> \o GroupSeq(p, G \ {f})

Groups(p, ids) == GroupSeq(p, GroupKeys(p, ids))

SetTable(p, table) ==
    /\ match_events' = IF p = "match" THEN table ELSE match_events
    /\ digest_events' = IF p = "digest" THEN table ELSE digest_events

Owned(p, ids) == {<<p, id>> : id \in ids}

\* Where run_tick goes when a pipeline has nothing (more) to send.
AfterPipeline(p) == IF p = "match" THEN "digest_select" ELSE "returned"

\* A storage error (SQLAlchemyError) inside a reservation: run_tick returns 2.
ReserveFails(i, p) ==
    /\ d[i].pc \in {IF p = "match" THEN "idle" ELSE "digest_select", p \o "_update"}
    /\ d' = [d EXCEPT ![i].pc = "returned", ![i].exit_code = 2]
    /\ UNCHANGED <<subscription, match_events, send_log, digest_events,
                   bot_user_link, poll_vars, fmt>>

\* _reserve_match_events / _reserve_digest_events, first statement: the
\* SELECT of the oldest queued ids.  The match pipeline opens the tick.
ReserveSelect(i, p) ==
    /\ d[i].pc = (IF p = "match" THEN "idle" ELSE "digest_select")
    /\ LET ids == OldestQueued(Table(p), BATCH_LIMIT) IN
        d' = [d EXCEPT ![i].pc = IF ids = {} THEN AfterPipeline(p)
                                 ELSE p \o "_update",
                       ![i].ids = ids]
    /\ UNCHANGED <<subscription, match_events, send_log, digest_events,
                   bot_user_link, poll_vars, fmt>>

\* db.commit() after the UPDATE (lines 130-135, 235-240, 262-267, 315-320):
\* the transaction ends and the row locks its UPDATE took are released.
CommitUpdate(locks) == {}

\* Second statement and commit: queued -> sending for the selected ids that
\* are still queued; the ids selected are returned.
ReserveUpdate(i, p) ==
    /\ d[i].pc = p \o "_update"
    /\ SetTable(p, SetStatus(Table(p), StillQueued(Table(p), d[i].ids), "sending"))
    /\ d' = [d EXCEPT ![i].pc = p \o "_load",
             ![i].owned = @ \cup
                 Owned(p, {Table(p)[r].id : r \in StillQueued(Table(p), d[i].ids)}),
             ![i].locks = CommitUpdate(@ \cup
                 Owned(p, {Table(p)[r].id : r \in StillQueued(Table(p), d[i].ids)}))]
    /\ UNCHANGED <<subscription, send_log, bot_user_link, poll_vars, fmt>>

\* Lines 349-358 / 403: load and group the reserved events.
Load(i, p) ==
    /\ d[i].pc = p \o "_load"
    /\ d' = [d EXCEPT ![i].pc = p \o "_send", ![i].queue = Groups(p, d[i].ids),
                      ![i].ids = {}]
    /\ UNCHANGED <<subscription, match_events, send_log, digest_events,
                   bot_user_link, poll_vars, fmt>>

\* Lines 360-386 / 406-433: one group.  A mode that does not fit the table
\* and a missing destination end in failed without a send call; otherwise
\* one call to bot_send_message, then sent or failed.  done keeps, for the
\* properties, the groups the tick has handled and how each ended.
Finish(dsp, p, code) ==
    [dsp EXCEPT !.queue = Tail(@),
                !.exit_code = IF code > @ THEN code ELSE @,
                !.pc = IF Len(dsp.queue) = 1 THEN AfterPipeline(p) ELSE @,
                !.done = @ \cup {[pipeline |-> p, ids |-> Head(dsp.queue),
                                  outcome |-> IF code = 0 THEN "sent"
                                              ELSE "failed"]},
                !.locks = CommitUpdate(@ \cup Owned(p, Head(dsp.queue)))]

SendGroup(i, p) ==
    /\ d[i].pc = p \o "_send"
    /\ LET g == Head(d[i].queue)
           sub == Row(p, Min(g)).subscription_id
           dest == GetDestChatId(subscription[sub].owner_user_id)
       IN  \/ /\ ~TypeMatches(p, sub) \/ dest = NULL
              /\ SetTable(p, MarkEvents(Table(p), g, "failed"))
              /\ d' = [d EXCEPT ![i] = Finish(@, p, 1)]
              /\ UNCHANGED send_log
           \/ /\ TypeMatches(p, sub) /\ dest # NULL
              /\ send_log' = send_log \cup
                    {[by |-> i, pipeline |-> p, ids |-> g, chat_id |-> dest]}
              /\ \/ /\ SetTable(p, MarkEvents(Table(p), g, "sent"))
                    /\ d' = [d EXCEPT ![i] = Finish(@, p, 0)]
                 \/ /\ SetTable(p, MarkEvents(Table(p), g, "failed"))
                    /\ d' = [d EXCEPT ![i] = Finish(@, p, 1)]
    /\ UNCHANGED <<subscription, bot_user_link, poll_vars, fmt>>

\* Lines 368 / 416: a storage error in the destination query is caught like
\* a failed send; the group is marked failed and no send call is made.
DestLookupFails(i, p) ==
    /\ d[i].pc = p \o "_send"
    /\ TypeMatches(p, Row(p, Min(Head(d[i].queue))).subscription_id)
    /\ SetTable(p, MarkEvents(Table(p), Head(d[i].queue), "failed"))
    /\ d' = [d EXCEPT ![i] = Finish(@, p, 1)]
    /\ UNCHANGED <<subscription, send_log, bot_user_link, poll_vars, fmt>>

\* A storage error in the load query or in the status UPDATE of a group is
\* not caught: it ends run_tick.
TickRaises(i, p) ==
    /\ d[i].pc \in {p \o "_load", p \o "_send"}
    /\ d' = [d EXCEPT ![i].pc = "raised"]
    /\ UNCHANGED <<subscription, match_events, send_log, digest_events,
                   bot_user_link, poll_vars, fmt>>

\* The process has ended (exit code or error); the next tick is a new one.
InTick(i) == d[i].pc \notin {"idle", "returned", "raised"}

NextTick(i) ==
    /\ d[i].pc \in {"returned", "raised"}
    /\ d' = [d EXCEPT ![i] = [IdleDispatcher EXCEPT !.crashes = d[i].crashes]]
    /\ UNCHANGED <<subscription, match_events, send_log, digest_events,
                   bot_user_link, poll_vars, fmt>>

\* The process dies between two of its steps, at most MaxCrashes times per
\* instance; the scheduler starts it again.
MaxCrashes == 1

CrashDispatcher(i) ==
    /\ InTick(i)
    /\ d[i].crashes < MaxCrashes
    /\ d' = [d EXCEPT ![i] = [IdleDispatcher EXCEPT !.crashes = d[i].crashes + 1]]
    /\ UNCHANGED <<subscription, match_events, send_log, digest_events,
                   bot_user_link, poll_vars, fmt>>

(***************************************************************************)
(* The store the dispatchers start from: queued events of an events and a  *)
(* digest subscription, each table possibly holding a row of the other     *)
(* mode's subscription, the owner's two links and a link of another owner. *)
(***************************************************************************)
MaxEvents == 2
MaxDigests == 1

DispatchSubscriptions ==
    [s \in Subs |-> Subscription(IF s = 1 THEN "events" ELSE "digest", 60, TRUE)]

LinkTables ==
    {<<BotUserLink(1, 1, a), BotUserLink(2, 1, b), BotUserLink(3, 2, FALSE)>> :
        a, b \in BOOLEAN}

InitN ==
    /\ clock = 1
    /\ chat = <<>>
    /\ subscription = DispatchSubscriptions
    /\ state = [s \in Subs |-> SubscriptionState]
    /\ row_lock = [s \in Subs |-> "none"]
    /\ w = [i \in Insts |-> IdleWorker]
    /\ lease = [s \in Subs |-> [at |-> NULL, written |-> FALSE,
                                 cursor |-> NULL, success |-> NULL]]
    /\ running = {}
    /\ \E n \in 1..MaxEvents : \E f \in [1..n -> Subs] :
          match_events = [k \in 1..n |-> MatchEvent(k, f[k], k)]
    /\ \E n \in 0..MaxDigests : \E f \in [1..n -> Subs] :
          digest_events = [k \in 1..n |-> DigestEvent(k, f[k], k)]
    /\ bot_user_link \in LinkTables
    /\ d = [i \in Insts |-> IdleDispatcher]
    /\ send_log = {}
    /\ fmt = NoFormat

NextN ==
    \/ \E i \in Insts : \E p \in Pipelines : ReserveSelect(i, p)
    \/ \E i \in Insts : \E p \in Pipelines : ReserveUpdate(i, p)
    \/ \E i \in Insts : \E p \in Pipelines : Load(i, p)
    \/ \E i \in Insts : \E p \in Pipelines : SendGroup(i, p)
    \/ \E i \in Insts : \E p \in Pipelines : ReserveFails(i, p)
    \/ \E i \in Insts : \E p \in Pipelines : DestLookupFails(i, p)
    \/ \E i \in Insts : \E p \in Pipelines : TickRaises(i, p)
    \/ \E i \in Insts : NextTick(i)
    \/ \E i \in Insts : CrashDispatcher(i)

SpecN == InitN /\ [][NextN]_vars

\* The dispatcher with a storage that never fails: the steps of a tick, the
\* next tick, and the death of a process.
Dispatcher(i) ==
    \/ \E p \in Pipelines : ReserveSelect(i, p)
    \/ \E p \in Pipelines : ReserveUpdate(i, p)
    \/ \E p \in Pipelines : Load(i, p)
    \/ \E p \in Pipelines : SendGroup(i, p)
    \/ NextTick(i)

NextReliable ==
    \/ \E i \in Insts : Dispatcher(i)
    \/ \E i \in Insts : CrashDispatcher(i)

\* Dispatch ticks are repeated fairly: an instance that can take a step of
\* its tick, or start a tick, eventually does.  A crash is never forced.
FairSpecN ==
    InitN /\ [][NextReliable]_vars /\ \A i \in Insts : WF_vars(Dispatcher(i))

(***************************************************************************)
(* The store with a backlog of undelivered results: QueuedPerSub match     *)
(* events of the events subscription and as many digest events (one per    *)
(* window) of the digest subscription, all queued when the dispatchers     *)
(* start; the owner's links are both live or both blocked.                 *)
(***************************************************************************)
QueuedPerSub == 2

InitD ==
    /\ clock = 1
    /\ chat = <<>>
    /\ subscription = DispatchSubscriptions
    /\ state = [s \in Subs |-> SubscriptionState]
    /\ row_lock = [s \in Subs |-> "none"]
    /\ w = [i \in Insts |-> IdleWorker]
    /\ lease = [s \in Subs |-> [at |-> NULL, written |-> FALSE,
                                 cursor |-> NULL, success |-> NULL]]
    /\ running = {}
    /\ match_events = [k \in 1..QueuedPerSub |-> MatchEvent(k, 1, k)]
    /\ digest_events = [k \in 1..QueuedPerSub |-> DigestEvent(k, 2, k)]
    /\ \E b \in BOOLEAN :
          bot_user_link = <<BotUserLink(1, 1, b), BotUserLink(2, 1, b),
                            BotUserLink(3, 2, FALSE)>>
    /\ d = [i \in Insts |-> IdleDispatcher]
    /\ send_log = {}
    /\ fmt = NoFormat

SpecD == InitD /\ [][NextN]_vars

(***************************************************************************)
(* Message formatting (notifications_runner).  A string is modelled by the *)
(* number of its characters: a concatenation adds, a slice text[:n] keeps  *)
(* at most n, an f-string adds the length of its literal text and of the   *)
(* decimal form of its numbers.                                            *)
(***************************************************************************)
DETAIL_TEXT_LIMIT == 3800
TG_MSG_HARD_LIMIT == 4096

\* Lengths of the literal strings of the two formatters and of the link.
HeaderPrefixLen == 29      \* "Найдены события по подписке: "
CountPrefixLen == 12       \* "Совпадений: "
ExcerptLimit == 300
TailHeaderLen == 34        \* "\n\nОстальные совпадения (ссылками):"
MessageIdPrefixLen == 11   \* "message_id="
EllLen == 39               \* "\n…(дальше не влезло по лимиту Telegram)"
TitlePrefixLen == 20       \* "Резюме по подписке: "
PeriodPrefixLen == 8       \* "Период: "
PublicLinkPrefixLen == 13  \* "https://t.me/"
PrivateLinkPrefixLen == 15 \* "https://t.me/c/"

\* len(str(n)) for n >= 0
RECURSIVE Digits(_)
Digits(n) == IF n < 10 THEN 1 ELSE 1 + Digits(n \div 10)

\* sub.name or f'#{sid}'
NameOrId(sub) == IF sub.name > 0 THEN sub.name ELSE 1 + Digits(sub.id)

\* build_tg_message_link: the length of the link, NULL when there is none.
\* sub.uname is the length of the username read from chat_ref, sub.internal
\* the number of digits after "100" in chat_id (NULL: none).
build_tg_message_link(sub, message_id) ==
    IF message_id = 0 THEN NULL
    ELSE IF sub.uname # NULL
         THEN PublicLinkPrefixLen + sub.uname + 1 + Digits(message_id)
    ELSE IF sub.internal # NULL
         THEN PrivateLinkPrefixLen + sub.internal + 1 + Digits(message_id)
    ELSE NULL

\* Lines 171-177: author, timestamp and excerpt of one event.  ev.excerpt is
\* the length of the stripped excerpt, ev.ws the number of white characters
\* that end its first ExcerptLimit characters.
Author(ev) ==
    IF ev.author_display > 0 THEN ev.author_display
    ELSE IF ev.author_id # NULL THEN Digits(ev.author_id) ELSE 1

Timestamp(ev) == IF ev.message_ts # NULL THEN ev.message_ts ELSE 1

Excerpt(ev) ==
    IF ev.excerpt > ExcerptLimit THEN (ExcerptLimit - ev.ws) + 1
    ELSE IF ev.excerpt = 0 THEN 1 ELSE ev.excerpt

\* Line 186: "\n{idx}) {author} • {ts}\n{excerpt or '—'}{link_text}"
Block(sub, idx, ev) ==
    LET url == build_tg_message_link(sub, ev.message_id)
        link_text == IF url # NULL THEN 1 + url ELSE 0
    IN  1 + Digits(idx) + 2 + Author(ev) + 3 + Timestamp(ev) + 1
          + Excerpt(ev) + link_text

\* Line 211: "\n{idx}) {url}" or "\n{idx}) message_id={id}"
Line(sub, idx, ev) ==
    LET url == build_tg_message_link(sub, ev.message_id)
    IN  1 + Digits(idx) + 2 +
        (IF url # NULL THEN url ELSE MessageIdPrefixLen + Digits(ev.message_id))

\* An append that puts the index in front.
PrependIndex(indexes, idx) == <<idx>> \o indexes

\* Lines 192 and 194: detailed_indexes.append(idx), remaining_indexes.append(idx)
AppendIndex(indexes, idx) == Append(indexes, idx)

\* Lines 170-194: the detailed part.  Every event is tried in the order of
\* the list; one whose block does not fit is left for the tail and the loop
\* goes on with the next.
RECURSIVE DetailPart(_, _, _, _, _, _)
DetailPart(sub, events, idx, used, detailed, remaining) ==
    IF idx > Len(events)
    THEN [used |-> used, detailed_indexes |-> detailed,
          remaining_indexes |-> remaining]
    ELSE IF used + Block(sub, idx, events[idx]) <= DETAIL_TEXT_LIMIT
         THEN DetailPart(sub, events, idx + 1,
                         used + Block(sub, idx, events[idx]),
                         AppendIndex(detailed, idx), remaining)
         ELSE DetailPart(sub, events, idx + 1, used, detailed,
                         AppendIndex(remaining, idx))

\* Lines 216-221: the first line that does not fit ends the tail; the
\* marker is appended when it fits itself.
Overflow(used) ==
    IF used + EllLen <= TG_MSG_HARD_LIMIT
    THEN [used |-> used + EllLen, ell |-> TRUE]
    ELSE [used |-> used, ell |-> FALSE]

\* Lines 202-222: the lines of the tail, until one does not fit.
RECURSIVE TailLines(_, _, _, _, _)
TailLines(sub, events, remaining, used, lines) ==
    IF remaining = <<>> THEN [used |-> used, line_indexes |-> lines, ell |-> FALSE]
    ELSE LET idx == Head(remaining)
             line == Line(sub, idx, events[idx])
         IN  IF used + line <= TG_MSG_HARD_LIMIT
             THEN TailLines(sub, events, Tail(remaining), used + line,
                            Append(lines, idx))
             ELSE [used |-> Overflow(used).used, line_indexes |-> lines,
                   ell |-> Overflow(used).ell]

\* Lines 158-222: the parts of the text: the indexes rendered as detail
\* blocks, those left for the tail, those rendered as lines, whether the
\* marker was appended, and the length of the joined parts.
MatchParts(sub, events) ==
    LET header == HeaderPrefixLen + NameOrId(sub) + 1
                  + CountPrefixLen + Digits(Len(events)) + 1
        detail == DetailPart(sub, events, 1, header, <<>>, <<>>)
        used == IF detail.used + TailHeaderLen < TG_MSG_HARD_LIMIT
                THEN detail.used + TailHeaderLen ELSE detail.used
        tail == IF detail.remaining_indexes = <<>>
                THEN [used |-> detail.used, line_indexes |-> <<>>, ell |-> FALSE]
                ELSE TailLines(sub, events, detail.remaining_indexes, used, <<>>)
    IN  [detailed_indexes |-> detail.detailed_indexes,
         remaining_indexes |-> detail.remaining_indexes,
         line_indexes |-> tail.line_indexes,
         ell |-> tail.ell,
         used |-> tail.used]

\* Lines 158-224: "".join(text_parts)
MatchText(sub, events) == MatchParts(sub, events).used

\* Lines 288-304: title, period, body.  ev.period is the length of the
\* period text of format_period_variant_f (NULL: a window bound is missing),
\* ev.digest_text the length of the stripped digest text.
DigestText(sub, ev) ==
    LET title == TitlePrefixLen + NameOrId(sub)
        period == PeriodPrefixLen + (IF ev.period # NULL THEN ev.period ELSE 1)
        body == IF ev.digest_text = 0 THEN 1 ELSE ev.digest_text
    IN  title + 1 + period + 2 + body

\* Lines 226-227 and 306-307: the final cut.
Unclamped(text) == text

Clamp(text) ==
    IF text > TG_MSG_HARD_LIMIT
    THEN Min({text, TG_MSG_HARD_LIMIT - 1}) + 1
    ELSE text

format_match_events_message(sub, events) == Clamp(MatchText(sub, events))

format_digest_message(sub, ev) == Clamp(DigestText(sub, ev))

\* subscriptions_runner.py lines 140-148, the cut of the Analysis Adapter's
\* digest before it is put in a DigestEvent: out.len is the length of the
\* stripped output, out.ws the number of whitespace characters that end its
\* first DIGEST_TEXT_CUT characters (rstrip removes them).
DIGEST_TEXT_CUT == 4096

TruncateDigest(out) ==
    IF out.len > DIGEST_TEXT_CUT
    THEN (DIGEST_TEXT_CUT - out.ws) + 1
    ELSE out.len

(***************************************************************************)
(* format_period_variant_f.  An instant is a number of minutes (UTC); a     *)
(* display zone is its UTC offset before and after one transition at the   *)
(* instant T (a zone without daylight saving time has the two equal).  A   *)
(* date is a day number, a time of day a number of minutes.                *)
(***************************************************************************)
MinutesPerDay == 24 * 60

\* datetime.astimezone(tz): the offset in force at the instant.
OffsetAt(tz, instant) == IF instant >= tz.T THEN tz.after ELSE tz.before

astimezone(tz, instant) == instant + OffsetAt(tz, instant)

\* ZoneInfo.utcoffset(dt): the zone looks the offset up by the wall-clock
\* fields of dt taken as local time of the zone, whatever dt.tzinfo is; the
\* local time of the transition is T plus the greater of the two offsets.
utcoffset(tz, wall) ==
    IF wall >= tz.T + (IF tz.before > tz.after THEN tz.before ELSE tz.after)
    THEN tz.after ELSE tz.before

\* _tz_gmt_label(tz, dt_utc): "GMT{sign}{hh}" or "GMT{sign}{hh}:{mm:02d}"
tz_gmt_label(tz, dt_utc) ==
    LET total_min == utcoffset(tz, dt_utc)
        abs_min == IF total_min >= 0 THEN total_min ELSE 0 - total_min
    IN  [sign |-> IF total_min >= 0 THEN "+" ELSE "-",
         hh |-> abs_min \div 60, mm |-> abs_min % 60]

\* Lines 96-107.  single_day: the first format (one date, two times) is
\* used; otherwise both dates are printed.
format_period_variant_f(window_start_utc, window_end_utc, tz) ==
    LET ls == astimezone(tz, window_start_utc)
        le == astimezone(tz, window_end_utc)
    IN  [single_day |-> (ls \div MinutesPerDay) = (le \div MinutesPerDay),
         s_date |-> ls \div MinutesPerDay, s_time |-> ls % MinutesPerDay,
         e_date |-> le \div MinutesPerDay, e_time |-> le % MinutesPerDay,
         gmt |-> tz_gmt_label(tz, window_start_utc)]

(***************************************************************************)
(* The inputs the formatters are applied to.                               *)
(***************************************************************************)
MaxFmtEvents == 20   \* events of one kind in a list
MaxMixed == 2        \* length of the lists that mix the kinds

\* Subscription.name is a String(200); the formatters take any name.
NameLens == {0, 7, 200, 5000}

\* chat_ref is a Text: no username, a short one, two that make a link too
\* long for a detail block next to other fields (the shorter of them leaves
\* room for the link as a line after another block), one longer than a
\* message may be; or a private supergroup.
FmtSubscriptions ==
    {[id |-> 12, name |-> n, uname |-> u, internal |-> NULL] :
        n \in NameLens, u \in {NULL, 5, 3300, 3700, 5000}}
    \cup {[id |-> 12, name |-> n, uname |-> NULL, internal |-> 10] :
        n \in NameLens}

\* The shortest and the longest block an event can give, and two between.
EventKinds ==
    { [author_display |-> 0, author_id |-> NULL, message_ts |-> NULL,
       excerpt |-> 0, ws |-> 0, message_id |-> 7],
      [author_display |-> 0, author_id |-> 123456789, message_ts |-> 25,
       excerpt |-> 300, ws |-> 0, message_id |-> 0],
      [author_display |-> 40, author_id |-> NULL, message_ts |-> 32,
       excerpt |-> 400, ws |-> 3, message_id |-> 1234],
      [author_display |-> 200, author_id |-> 123456789, message_ts |-> 32,
       excerpt |-> 400, ws |-> 0, message_id |-> 1234567890] }

EventLists ==
    {[k \in 1..n |-> ev] : n \in 0..MaxFmtEvents, ev \in EventKinds}
    \cup SeqsUpTo(EventKinds, MaxMixed)

\* The window of a digest as format_period_variant_f prints it (one day,
\* two days), and digest texts around the limit.
FmtDigests ==
    {[period |-> p, digest_text |-> t] :
        p \in {NULL, 39, 86}, t \in {0, 100, 4000, 4096, 4097, 6000}}

\* Outputs of the digest analysis around the cut, with and without
\* whitespace at the place of the cut.
DigestOutputs ==
    {[len |-> n, ws |-> k] :
        n \in {0, 100, 4095, 4096, 4097, 6000}, k \in {0, 1, 10}}

\* Before the formatter is applied no part has been built.
NoParts ==
    [detailed_indexes |-> <<>>, remaining_indexes |-> <<>>,
     line_indexes |-> <<>>, ell |-> FALSE, used |-> 0]

\* Display zones: fixed offsets (UTC+5, the default; UTC; UTC+5:30), and
\* zones whose clocks change at 01:00 UTC (+1 -> +2 and back) or at 07:00
\* UTC (-5 -> -4) of the second day of the model.
Hour == 60

DisplayZones ==
    {[T |-> 0, before |-> o, after |-> o] : o \in {0, 5 * Hour, 5 * Hour + 30}}
    \cup {[T |-> 2 * MinutesPerDay + Hour, before |-> Hour, after |-> 2 * Hour],
          [T |-> 2 * MinutesPerDay + Hour, before |-> 2 * Hour, after |-> Hour],
          [T |-> 2 * MinutesPerDay + 7 * Hour, before |-> 0 - 5 * Hour,
           after |-> 0 - 4 * Hour]}

\* Window bounds: hours and half hours of three days, around midnight (UTC
\* and local) and around the clock changes.
WindowHalfHours == {0, 1, 2, 3, 5, 7, 9, 13, 15, 18, 22, 36, 38, 40, 46}

WindowInstants ==
    {day * MinutesPerDay + h * (Hour \div 2) : day \in 1..3, h \in WindowHalfHours}

MaxWindow == 1500

Windows ==
    {win \in WindowInstants \X WindowInstants :
        win[1] < win[2] /\ win[2] - win[1] <= MaxWindow}

\* Nothing printed yet.
NoPeriod ==
    [single_day |-> FALSE, s_date |-> 0, s_time |-> 0, e_date |-> 0,
     e_time |-> 0, gmt |-> [sign |-> "+", hh |-> 0, mm |-> 0]]

\* format_period_variant_f(window_start_utc, window_end_utc, tz_name)
FormatPeriod ==
    /\ fmt.fn = "period" /\ ~fmt.done
    /\ fmt' = [fmt EXCEPT !.done = TRUE,
                          !.period = format_period_variant_f(
                                         fmt.window_start, fmt.window_end, fmt.tz)]
    /\ UNCHANGED <<poll_vars, subscription, match_events, digest_events,
                   bot_user_link, d, send_log>>

\* _format_match_events_message(sub, events)
FormatMatch ==
    /\ fmt.fn = "match" /\ ~fmt.done
    /\ fmt' = [fmt EXCEPT !.done = TRUE,
                          !.parts = MatchParts(fmt.sub, fmt.events),
                          !.joined = MatchText(fmt.sub, fmt.events),
                          !.text = format_match_events_message(fmt.sub, fmt.events)]
    /\ UNCHANGED <<poll_vars, subscription, match_events, digest_events,
                   bot_user_link, d, send_log>>

\* _format_digest_message(sub, ev)
FormatDigest ==
    /\ fmt.fn = "digest" /\ ~fmt.done
    /\ fmt' = [fmt EXCEPT !.done = TRUE,
                          !.joined = DigestText(fmt.sub, fmt.ev),
                          !.text = format_digest_message(fmt.sub, fmt.ev)]
    /\ UNCHANGED <<poll_vars, subscription, match_events, digest_events,
                   bot_user_link, d, send_log>>

\* _process_one_subscription, lines 140-148
CutDigestText ==
    /\ fmt.fn = "digest_text" /\ ~fmt.done
    /\ fmt' = [fmt EXCEPT !.done = TRUE, !.text = TruncateDigest(fmt.out)]
    /\ UNCHANGED <<poll_vars, subscription, match_events, digest_events,
                   bot_user_link, d, send_log>>

InitF ==
    /\ clock = 1
    /\ chat = <<>>
    /\ subscription = DispatchSubscriptions
    /\ state = [s \in Subs |-> SubscriptionState]
    /\ row_lock = [s \in Subs |-> "none"]
    /\ w = [i \in Insts |-> IdleWorker]
    /\ lease = [s \in Subs |-> [at |-> NULL, written |-> FALSE,
                                 cursor |-> NULL, success |-> NULL]]
    /\ running = {}
    /\ match_events = <<>>
    /\ digest_events = <<>>
    /\ bot_user_link = <<>>
    /\ d = [i \in Insts |-> IdleDispatcher]
    /\ send_log = {}
    /\ \/ \E sub \in FmtSubscriptions, events \in EventLists :
             fmt = [fn |-> "match", sub |-> sub, events |-> events,
                    done |-> FALSE, parts |-> NoParts, joined |-> 0,
                    text |-> 0]
       \/ \E sub \in FmtSubscriptions, ev \in FmtDigests :
             fmt = [fn |-> "digest", sub |-> sub, ev |-> ev,
                    done |-> FALSE, joined |-> 0, text |-> 0]
       \/ \E out \in DigestOutputs :
             fmt = [fn |-> "digest_text", out |-> out, done |-> FALSE,
                    text |-> 0]
       \/ \E win \in Windows, tz \in DisplayZones :
             fmt = [fn |-> "period", window_start |-> win[1],
                    window_end |-> win[2], tz |-> tz, done |-> FALSE,
                    period |-> NoPeriod]

NextF == FormatMatch \/ FormatDigest \/ CutDigestText \/ FormatPeriod

SpecF == InitF /\ [][NextF]_vars

(***************************************************************************)
(* Scheduler and processor: properties.                                    *)
(***************************************************************************)
Processing(i) == w[i].pc \in {"fetch", "analyze", "commit", "failed"}

\* Instance i's reservation transaction commits in this step and returns s.
Reserves(i, s) ==
    /\ w[i].pc = "reserving"
    /\ w'[i].pc = "fetch"
    /\ s \in Range(w[i].due)

\* C1 (as stated): once a subscription has been reserved at time t, no
\* other reservation returns it before t + LEASE_MINUTES.
C1_NoReservationWithinLeaseWindow ==
    [][\A i \in Insts, s \in Subs :
          Reserves(i, s) =>
              \/ lease[s].at = NULL
              \/ w[i].now >= lease[s].at + LEASE_MINUTES]_vars

\* C1 (amended): once a subscription has been reserved at time t, no other
\* reservation returns it before t + LEASE_MINUTES unless a processor has
\* committed a result (success write or retry write) for it since.
C1_LeaseHeldUntilResultWritten ==
    [][\A i \in Insts, s \in Subs :
          Reserves(i, s) =>
              \/ lease[s].at = NULL
              \/ w[i].now >= lease[s].at + LEASE_MINUTES
              \/ lease[s].written]_vars

\* An instance has re-reserved a subscription whose earlier holder has not
\* written any result, a full lease after that holder's reservation.
C1_Witness ==
    \E i, j \in Insts : \E s \in Subs :
        /\ i # j
        /\ w[i].pc = "fetch" /\ Current(i) = s
        /\ Processing(j) /\ Current(j) = s
        /\ w[i].now >= w[j].now + LEASE_MINUTES
        /\ ~lease[s].written

\* C2 (as stated): between an instance's reservation of a subscription and
\* its final commit for it, no other instance holds that subscription.
C2_SingleOwnerWhileProcessing ==
    \A i, j \in Insts :
        (i # j /\ Processing(i) /\ Processing(j))
            => Range(w[i].due) \cap Range(w[j].due) = {}

\* C3 (as stated): no write of last_message_id stores a value below the one
\* stored just before it.
C3_CursorNeverDecreases ==
    [][\A s \in Subs :
          state'[s].last_message_id >= state[s].last_message_id]_vars

C5_DuplicatesAbsorbed ==
    \A i \in Insts : ~(w[i].pc = "failed" /\ w[i].err = "IntegrityError")

\* The commit of instance i stores the analysis result of an events
\* subscription that had no cursor: messages were fetched, and the matches
\* are distinct ids of fetched messages.
FirstResult(i) ==
    /\ w[i].pc = "commit"
    /\ subscription[Current(i)].subscription_type = "events"
    /\ w[i].st.last_message_id = NULL
    /\ w[i].msgs # {}
    /\ Range(w[i].matches) \subseteq w[i].msgs
    /\ \A k, l \in DOMAIN w[i].matches :
          k # l => w[i].matches[k] # w[i].matches[l]

\* C13 (as stated): a successful first tick of an events subscription stores
\* exactly one queued MatchEvent per matched id and no other row, sets the
\* cursor to the greatest fetched id, and sets next_run_at to now + interval.
C13_FirstTickResult ==
    [][\A i \in Insts :
          (FirstResult(i) /\ Commit(i) /\ w'[i].pc # "failed") =>
              LET s == Current(i)
                  added == {r \in DOMAIN match_events' : r > Len(match_events)}
              IN  /\ \A r \in DOMAIN match_events :
                        match_events'[r] = match_events[r]
                  /\ Cardinality(added) = Cardinality(Range(w[i].matches))
                  /\ \A r \in added :
                        /\ match_events'[r].subscription_id = s
                        /\ match_events'[r].message_id \in Range(w[i].matches)
                        /\ match_events'[r].notify_status = "queued"
                  /\ \A m \in Range(w[i].matches) : \E r \in added :
                        match_events'[r].message_id = m
                  /\ state'[s].last_message_id = Max(w[i].msgs)
                  /\ state'[s].next_run_at =
                        w[i].now + subscription[s].frequency_minutes]_vars

C15_ReservationFailure ==
    [][\A i \in Insts :
          /\ (/\ w[i].pc \in {"idle", "reserving"}
              /\ w'[i] # w[i]
              /\ w'[i].exit_code = 2)
                 => /\ w'[i].pc = "idle"
                    /\ state' = state
                    /\ match_events' = match_events
                    /\ \A s \in Subs : row_lock'[s] # i
          /\ w'[i].exit_code = 2 => ~Processing(i)']_vars

\* A tick has returned 2 and the subscription it could have reserved is as
\* it was before: never stamped, unlocked and still due.
C15_Witness ==
    \E i \in Insts : \E s \in Subs :
        /\ w[i].pc = "idle" /\ w[i].exit_code = 2
        /\ state[s] = SubscriptionState
        /\ ~RowLocked(s)
        /\ s \in Range(DueRows(clock))

\* Instance i's attempt on its current subscription fails in this step, or
\* run_tick finishes the handling of the failed attempt in this step.
Fails(i) == w[i].pc # "failed" /\ w'[i].pc = "failed"

HandlesFailure(i) ==
    w[i].pc = "failed" /\ w'[i] # w[i] /\ w'[i].exit_code = 1

C17_FailureIsolatedInBatch ==
    [][\A i \in Insts :
          /\ (HandlesFailure(i) /\ Len(w[i].due) > 1)
                 => /\ w'[i].pc = "fetch"
                    /\ w'[i].due = Tail(w[i].due)
                    /\ w'[i].now = w[i].now
          /\ w'[i].pc = "fetch"
                 => w'[i].pending = NoPending /\ w'[i].changes = NoChanges
          /\ (w[i].pc = "commit" /\ Commit(i) /\ w'[i].pc # "failed")
                 => /\ \A s \in Subs \ {Current(i)} : state'[s] = state[s]
                    /\ \A r \in DOMAIN match_events' :
                          r > Len(match_events) =>
                             match_events'[r].subscription_id = Current(i)]_vars

\* The first subscription of a batch has failed (retry scheduled, nothing
\* stored for it) and the second one has been processed with success in the
\* same tick, its event stored.
C17_Witness ==
    \E i \in Insts :
        /\ w[i].pc = "idle" /\ w[i].exit_code = 1
        /\ lease[1].at = lease[2].at /\ lease[1].at # NULL
        /\ state[1].last_success_at = NULL
        /\ state[1].next_run_at = lease[1].at + RETRY_MINUTES
        /\ state[2].last_success_at = lease[2].at
        /\ match_events # <<>>
        /\ \A r \in DOMAIN match_events : match_events[r].subscription_id = 2

\* C18 (as stated): when run_tick has handled a failed attempt the
\* subscription's status is error and last_error is set; when an attempt is
\* committed with success the status is ok and last_error is empty.
C18_HealthReflectsOutcome ==
    [][\A i \in Insts :
          /\ HandlesFailure(i) =>
                /\ subscription'[Current(i)].status = "error"
                /\ subscription'[Current(i)].last_error # NULL
          /\ (w[i].pc = "commit" /\ Commit(i) /\ w'[i].pc # "failed") =>
                /\ subscription'[Current(i)].status = "ok"
                /\ subscription'[Current(i)].last_error = NULL]_vars

\* Lines 89-94: the modes the processor names.
KnownTypes == {"events", "digest", "summary"}

\* C19 (as stated): for a subscription whose mode is neither events nor
\* digest, no instance fetches or analyses messages, no event is stored, and
\* once a result has been written the health status is error and the short
\* retry is not scheduled.
C19_UnknownModeNotProcessed ==
    \A s \in Subs :
        subscription[s].subscription_type \notin KnownTypes =>
            /\ \A i \in Insts :
                  (Processing(i) /\ Current(i) = s) =>
                      w[i].pc \notin {"analyze", "commit"}
            /\ \A r \in DOMAIN match_events :
                  match_events[r].subscription_id # s
            /\ lease[s].written =>
                  /\ subscription[s].status = "error"
                  /\ state[s].next_run_at # lease[s].at + RETRY_MINUTES

\* C20 (as stated): a successful tick of an events subscription that has a
\* cursor passes to the Analysis Adapter every message whose id is above the
\* cursor it found and not above the cursor it stores, so no message is
\* skipped over any sequence of successful ticks, however many messages
\* accumulated between two of them.
C20_NoGapBehindCursor ==
    [][\A i \in Insts :
          (/\ w[i].pc = "commit" /\ Commit(i) /\ w'[i].pc # "failed"
           /\ SubType(Current(i)) # "digest"
           /\ w[i].st.last_message_id # NULL
           /\ w[i].msgs # {})
             => /\ state'[Current(i)].last_message_id = Max(w[i].msgs)
                /\ \A k \in 1..Len(chat) :
                      (/\ k > w[i].st.last_message_id
                       /\ k <= state'[Current(i)].last_message_id)
                         => k \in w[i].msgs]_vars

\* The Message Source Adapter returns to instance i in this step (it does
\* not raise), and returns the messages msgs.
SourceReturns(i, msgs) ==
    /\ w[i].pc = "fetch"
    /\ w'[i] # w[i]
    /\ w'[i].pc # "idle"
    /\ w'[i].err # "FetchError"
    /\ msgs = FetchMessages(SinceDt(Current(i), state[Current(i)], w[i].now),
                            MinId(Current(i), state[Current(i)]),
                            EVENTS_READ_LIMIT)

\* The rows of a table that belong to subscription s.
EventsOf(table, s) == {r \in DOMAIN table : table[r].subscription_id = s}

\* C25 (as stated): when the source returns no messages for a reserved
\* subscription of either mode the tick goes on to a successful commit with
\* nothing analysed and nothing pending, and that commit stores no event,
\* leaves the cursor as it is and leaves last_checked_at = last_success_at =
\* now and next_run_at = now + the subscription's interval.
C25_EmptyFetchIsSuccess ==
    [][\A i \in Insts :
          /\ SourceReturns(i, {}) =>
                /\ w'[i].pc = "commit"
                /\ w'[i].pending = w[i].pending
          /\ (w[i].pc = "commit" /\ w[i].msgs = {} /\ Commit(i)) =>
                LET s == Current(i) IN
                /\ EventsOf(match_events', s) = EventsOf(match_events, s)
                /\ digest_events' = digest_events
                /\ state'[s].last_message_id = state[s].last_message_id
                /\ state'[s].last_checked_at = w[i].now
                /\ state'[s].last_success_at = w[i].now
                /\ state'[s].next_run_at =
                      w[i].now + subscription[s].frequency_minutes]_vars

\* What the source holds for the request instance i is about to make.
Fetched(i) ==
    FetchMessages(SinceDt(Current(i), state[Current(i)], w[i].now),
                  MinId(Current(i), state[Current(i)]), EVENTS_READ_LIMIT)

\* C26 (as stated): a digest tick requests the window that starts at now -
\* interval, with no id floor, whatever cursor is stored; when the source
\* returns at least one message the tick goes on to the analysis with those
\* messages, and its commit stores exactly one queued DigestEvent of the
\* subscription whose end id is the greatest id read, and sets next_run_at =
\* now + interval.
C26_DigestWindowStoresOneEvent ==
    [][\A i \in Insts :
          /\ (w[i].pc = "fetch" /\ SubType(Current(i)) = "digest") =>
                LET s == Current(i) IN
                /\ SinceDt(s, state[s], w[i].now) =
                      w[i].now - subscription[s].frequency_minutes
                /\ MinId(s, state[s]) = NULL
                /\ (SourceReturns(i, Fetched(i)) /\ Fetched(i) # {}) =>
                      /\ w'[i].pc = "analyze"
                      /\ w'[i].msgs = Fetched(i)
          /\ (/\ w[i].pc = "commit" /\ SubType(Current(i)) = "digest"
              /\ w[i].msgs # {} /\ Commit(i) /\ w'[i].pc # "failed") =>
                LET s == Current(i) IN
                /\ Len(digest_events') = Len(digest_events) + 1
                /\ digest_events'[Len(digest_events')] =
                      DigestEvent(Len(digest_events'), s, Max(w[i].msgs))
                /\ state'[s].next_run_at =
                      w[i].now + subscription[s].frequency_minutes]_vars

\* C27 (as stated): every MatchEvent a commit stores has the id of a message
\* fetched in that tick, and its excerpt and timestamp are those of that
\* message, never the model's, whatever match list the model returned.
C27_StoredFieldsFromSource ==
    [][\A i \in Insts :
          (w[i].pc = "commit" /\ Commit(i)) =>
              \A r \in DOMAIN match_events' \ DOMAIN match_events :
                  /\ match_events'[r].message_id \in w[i].msgs
                  /\ FieldsFrom(w[i].msgs, match_events'[r].message_id) = "source"]_vars

AsOverdue(a, b) ==
    \/ state[a].next_run_at = NULL
    \/ /\ state[b].next_run_at # NULL
       /\ state[a].next_run_at <= state[b].next_run_at

\* C30: the list a reservation selects at time now holds only active
\* subscriptions whose next_run_at is null or not later than now, each once,
\* at most BATCH_SIZE of them, most overdue first; and when a due, active,
\* unlocked subscription is left out, every one selected is at least as
\* overdue as it.
C30_MostOverdueFirst ==
    [][\A i \in Insts :
          (w[i].pc = "idle" /\ w'[i].pc = "reserving") =>
              LET rows == w'[i].due
                  now_utc == w'[i].now
              IN  /\ now_utc = clock
                  /\ Len(rows) <= BATCH_SIZE
                  /\ \A k, l \in DOMAIN rows :
                        k < l => rows[k] # rows[l] /\ AsOverdue(rows[k], rows[l])
                  /\ \A s \in Range(rows) :
                        /\ subscription[s].is_active
                        /\ \/ state[s].next_run_at = NULL
                           \/ state[s].next_run_at <= now_utc
                        /\ row_lock[s] = "none"
                  /\ \A t \in DOMAIN state \ Range(rows) :
                        (/\ subscription[t].is_active
                         /\ \/ state[t].next_run_at = NULL
                            \/ state[t].next_run_at <= now_utc
                         /\ row_lock[t] = "none")
                            => /\ Len(rows) = BATCH_SIZE
                               /\ \A s \in Range(rows) : AsOverdue(s, t)]_vars

\* A reservation has taken BATCH_SIZE rows, a never-run one among them, and
\* left out a due, active row that no transaction has locked.
C30_Witness ==
    \E i \in Insts :
        /\ w[i].pc = "reserving"
        /\ Len(w[i].due) = BATCH_SIZE
        /\ \E s \in Range(w[i].due) : state[s].next_run_at = NULL
        /\ \E t \in DOMAIN state \ Range(w[i].due) :
              /\ IsDueRow(t, w[i].now)
              /\ row_lock[t] = "none"
              /\ \E s \in Range(w[i].due) :
                    state[s].next_run_at # NULL
                    /\ state[s].next_run_at < state[t].next_run_at

\* Instance i takes a step of its reservation (the select, the commit of the
\* stamps, or the failure of either).
InReservation(i) == w[i].pc \in {"idle", "reserving"} /\ w'[i] # w[i]

\* C31: a reservation writes only last_checked_at (= now) and next_run_at
\* (= now + LEASE_MINUTES) of the rows it returns: last_message_id and
\* last_success_at of those rows, every field of the rows it does not return,
\* the subscriptions and both event tables are unchanged, and no adapter call
\* (fetch, analysis, send) is made during it.
C31_ReservationWritesOnlyStamps ==
    [][\A i \in Insts :
          InReservation(i) =>
              /\ \A s \in Subs :
                    /\ state'[s].last_message_id = state[s].last_message_id
                    /\ state'[s].last_success_at = state[s].last_success_at
                    /\ s \notin Range(w[i].due) => state'[s] = state[s]
                    /\ Reserves(i, s) =>
                          /\ state'[s].last_checked_at = w[i].now
                          /\ state'[s].next_run_at = w[i].now + LEASE_MINUTES
              /\ subscription' = subscription
              /\ match_events' = match_events
              /\ digest_events' = digest_events
              /\ send_log' = send_log
              /\ w'[i].msgs = {} /\ w'[i].matches = <<>>
              /\ w'[i].pc \in {"idle", "reserving", "fetch"}]_vars

\* A reservation has returned subscription 1 alone, which has a cursor and a
\* success time from an earlier tick; subscription 2, active and not yet
\* due, was not returned and keeps the row its last success wrote.
C31_Witness ==
    \E i \in Insts :
        /\ w[i].pc = "fetch" /\ w[i].due = <<1>>
        /\ state[1].last_message_id # NULL
        /\ state[1].last_success_at # NULL
        /\ state[1].last_success_at < w[i].now
        /\ state[1].last_checked_at = w[i].now
        /\ state[1].next_run_at = w[i].now + LEASE_MINUTES
        /\ subscription[2].is_active
        /\ state[2].last_checked_at # NULL
        /\ state[2].last_checked_at < w[i].now
        /\ state[2].next_run_at > w[i].now
        /\ match_events # <<>>

\* Subscription s is reserved and no result (success write or retry write)
\* has been committed for it since: the store is as a worker that dies now,
\* or has died, leaves it.
NoResultYet(s) == lease[s].at # NULL /\ ~lease[s].written

\* Instance i is the worker of the last reservation of s: it reserved s at
\* that time, and the row it has loaded is the one that reservation left.
HoldsLease(i, s) ==
    /\ Processing(i) /\ Current(i) = s /\ w[i].now = lease[s].at
    /\ w[i].pc # "fetch" => w[i].st.last_message_id = lease[s].cursor

\* What a tick that reserves s at time t reads from the chat as it is.
Reread(s, t) ==
    FetchMessages(SinceDt(s, state[s], t), MinId(s, state[s]), EVENTS_READ_LIMIT)

Reserved(s) == \E i \in Insts : Processing(i) /\ s \in Range(w[i].due)

\* C36: with a fixed set of active subscriptions and scheduler ticks
\* repeated fairly, every subscription that is due (next_run_at null or not
\* later than now) is eventually reserved, also when more than BATCH_SIZE
\* are due at once and the others keep failing and coming back due after
\* RETRY_MINUTES.
C36_NoStarvation ==
    \A s \in ManySubs :
        (subscription[s].is_active
         /\ (state[s].next_run_at = NULL \/ state[s].next_run_at <= clock))
            ~> Reserved(s)

\* A reservation has selected a full batch in which a subscription that an
\* earlier full batch had left out, and that has never been reserved, comes
\* before a subscription of that earlier batch, which failed, was
\* rescheduled RETRY_MINUTES later and is due again.
C36_Witness ==
    \E i \in Insts : \E k, l \in 1..BATCH_SIZE :
        /\ w[i].pc = "reserving" /\ Len(w[i].due) = BATCH_SIZE
        /\ k < l
        /\ state[w[i].due[k]].last_checked_at = NULL
        /\ state[w[i].due[k]].next_run_at # NULL
        /\ lease[w[i].due[l]].written
        /\ state[w[i].due[l]].next_run_at = lease[w[i].due[l]].at + RETRY_MINUTES
        /\ state[w[i].due[k]].next_run_at <= lease[w[i].due[l]].at

\* The step is the commit of instance i's tick for subscription s.
CommitsTick(i, s) ==
    /\ w[i].pc = "commit" /\ Current(i) = s
    /\ w'[i] # w[i] /\ w'[i].pc # "failed"

\* A step stores the events of a tick exactly when it moves the cursor
\* over the messages of that tick.
StoredWithCursor(s) ==
    /\ EventsOf(match_events', s) # EventsOf(match_events, s) =>
          \E i \in Insts :
              /\ CommitsTick(i, s)
              /\ state'[s].last_message_id = Max(w[i].msgs)
    /\ state'[s].last_message_id # state[s].last_message_id =>
          \E i \in Insts :
              /\ CommitsTick(i, s)
              /\ state'[s].last_message_id = Max(w[i].msgs)
              /\ \A k \in DOMAIN w[i].matches :
                    \E r \in EventsOf(match_events', s) :
                        match_events'[r].message_id = w[i].matches[k]

\* C37 (as stated): events and cursor of a tick are stored together or not
\* at all, whatever fails and wherever an instance crashes, and the cursor
\* stays advanced over the messages of every tick whose events are stored:
\* no step takes it back below a stored event that it had passed.
C37_EventsAndCursorAtomic ==
    [][\A s \in Subs :
          /\ StoredWithCursor(s)
          /\ \A r \in EventsOf(match_events', s) :
                match_events'[r].message_id <= state[s].last_message_id =>
                    match_events'[r].message_id <= state'[s].last_message_id]_vars

\* The last write of the state row of s was the commit of a successful
\* tick: both stamps are its now_utc and the next run is one interval later.
\* (A reservation needs the row due, so it stamps last_checked_at later than
\* last_success_at; a retry write moves next_run_at alone.)
SucceededLast(s) ==
    /\ state[s].last_success_at # NULL
    /\ state[s].last_checked_at = state[s].last_success_at
    /\ state[s].next_run_at =
          state[s].last_success_at + subscription[s].frequency_minutes

\* The step commits a reservation that returned s.
ReservesNow(s) ==
    \E i \in Insts :
        /\ w[i].pc = "reserving" /\ s \in Range(w[i].due)
        /\ state'[s] = ReserveRow(state[s], w[i].now)

\* C38 (as stated): the state row that a successful tick has committed is
\* next changed by a later reservation of the subscription and by nothing
\* else: no retry write and no success write of an instance that reserved
\* the subscription earlier overwrites it.
C38_SuccessStandsUntilReserved ==
    [][\A s \in Subs :
          (SucceededLast(s) /\ state'[s] # state[s]) => ReservesNow(s)]_vars

(***************************************************************************)
(* Dispatcher: properties.                                                 *)
(***************************************************************************)
Exists(p, id) == \E r \in DOMAIN Table(p) : Table(p)[r].id = id

Status(p, id) == Row(p, id).notify_status

Attempted(p, id) == \E c \in send_log : c.pipeline = p /\ id \in c.ids

\* A send call is possible for the event: its subscription's mode fits the
\* table and its owner has a non-blocked link.
Deliverable(p, id) ==
    /\ TypeMatches(p, Row(p, id).subscription_id)
    /\ GetDestChatId(subscription[Row(p, id).subscription_id].owner_user_id) # NULL

\* C6 (as stated): the id list a reservation returns is exactly the set of
\* events that call moved from queued to sending, and the lists two
\* instances hold are disjoint.
C6_ReservedListsDisjoint ==
    \A i \in Insts : \A p \in Pipelines :
        d[i].pc = p \o "_load" =>
            /\ Owned(p, d[i].ids) \subseteq d[i].owned
            /\ \A j \in Insts \ {i} :
                  d[j].pc = p \o "_load" => d[i].ids \cap d[j].ids = {}

StatusSteps ==
    {<<"queued", "sending">>, <<"sending", "sent">>, <<"sending", "failed">>}

\* C7 (as stated): the only status transitions are queued -> sending,
\* sending -> sent and sending -> failed; sent and failed are final.
C7_OneWayStatus ==
    [][/\ \A r \in DOMAIN match_events :
             match_events'[r].notify_status # match_events[r].notify_status =>
                 <<match_events[r].notify_status,
                   match_events'[r].notify_status>> \in StatusSteps
       /\ \A r \in DOMAIN digest_events :
             digest_events'[r].notify_status # digest_events[r].notify_status =>
                 <<digest_events[r].notify_status,
                   digest_events'[r].notify_status>> \in StatusSteps]_vars

\* C8 (as stated): when a dispatch tick has returned or ended with an error,
\* every event it reserved is sent or failed, none is still sending.
C8_NoSendingAfterTick ==
    \A i \in Insts :
        d[i].pc \in {"returned", "raised"} =>
            \A e \in d[i].owned : Status(e[1], e[2]) \in {"sent", "failed"}

\* C9 (as stated): every queued event for which a send call is possible is
\* eventually included in a call to the Delivery Adapter.
C9_AtLeastOnce ==
    \A p \in Pipelines : \A id \in 1..MaxEvents :
        (Exists(p, id) /\ Status(p, id) = "queued" /\ Deliverable(p, id))
            ~> Attempted(p, id)

\* C11 (as stated): when a dispatch tick has returned, the events of every
\* group it handled have one common final status, and the events of a group
\* whose send failed (adapter error, no destination, unknown mode) are all
\* failed, none sent.
C11_GroupAllOrNothing ==
    \A i \in Insts :
        d[i].pc = "returned" =>
            \A g \in d[i].done :
                /\ \E st \in {"sent", "failed"} :
                      \A id \in g.ids : Status(g.pipeline, id) = st
                /\ g.outcome = "failed" =>
                      \A id \in g.ids : Status(g.pipeline, id) = "failed"

\* C12 (as stated): for the match events of one subscription that a tick's
\* reservation moved from queued to sending and whose send succeeded, exactly
\* one call to the Delivery Adapter has been made, and when the tick has
\* returned every one of them is sent (queued -> sending -> sent).
C12_OneCallThenSent ==
    \A i \in Insts : \A g \in d[i].done :
        (/\ g.pipeline = "match" /\ g.outcome = "sent"
         /\ Owned("match", g.ids) \subseteq d[i].owned)
            => /\ Cardinality({c \in send_log :
                      c.pipeline = "match" /\ c.ids \cap g.ids # {}}) = 1
               /\ d[i].pc = "returned" =>
                      \A id \in g.ids : Status("match", id) = "sent"

\* The groups a tick of instance i has formed in pipeline p: those it has
\* handled and those still waiting in its loop.
TickGroups(i, p) ==
    {g.ids : g \in {x \in d[i].done : x.pipeline = p}}
        \cup (IF d[i].pc = p \o "_send" THEN Range(d[i].queue) ELSE {})

SubOf(p, g) == Row(p, Min(g)).subscription_id

\* The send calls instance i has made that carry an event of group g.
CallsFor(i, p, g) ==
    {c \in send_log : c.by = i /\ c.pipeline = p /\ c.ids \cap g # {}}

\* C21 (as stated): in both pipelines the events a tick reserved are grouped
\* one group per (owner, subscription), and the tick makes at most one send
\* call per group, which carries all the events of the group: two reserved
\* events of one subscription are never sent in two calls.
C21_OneCallPerSubscription ==
    \A i \in Insts : \A p \in Pipelines :
        /\ \A g, h \in TickGroups(i, p) : g # h => SubOf(p, g) # SubOf(p, h)
        /\ \A g \in TickGroups(i, p) :
              /\ Cardinality(CallsFor(i, p, g)) <= 1
              /\ \A c \in CallsFor(i, p, g) : c.ids = g

\* C21 (amended): the match pipeline forms one group per (owner,
\* subscription) and makes at most one send call per group, carrying all its
\* events; the digest pipeline makes at most one send call per reserved
\* digest event, each carrying that event alone.
C21_OneCallPerMatchGroup ==
    \A i \in Insts :
        /\ \A g, h \in TickGroups(i, "match") :
              g # h => SubOf("match", g) # SubOf("match", h)
        /\ \A g \in TickGroups(i, "digest") : Cardinality(g) = 1
        /\ \A p \in Pipelines : \A g \in TickGroups(i, p) :
              /\ \A id \in g : Row(p, id).subscription_id = SubOf(p, g)
              /\ Cardinality(CallsFor(i, p, g)) <= 1
              /\ \A c \in CallsFor(i, p, g) : c.ids = g

\* A tick has returned after sending two match events of one subscription
\* in one call and two digest events of one subscription in two calls.
C21_Witness ==
    \E i \in Insts :
        /\ d[i].pc = "returned"
        /\ \E g \in d[i].done :
              /\ g.pipeline = "match" /\ Cardinality(g.ids) = 2
              /\ g.outcome = "sent"
              /\ Cardinality(CallsFor(i, "match", g.ids)) = 1
        /\ \E g, h \in d[i].done :
              /\ g # h /\ g.pipeline = "digest" /\ h.pipeline = "digest"
              /\ SubOf("digest", g.ids) = SubOf("digest", h.ids)
              /\ g.outcome = "sent" /\ h.outcome = "sent"
              /\ Cardinality(CallsFor(i, "digest", g.ids \cup h.ids)) = 2

\* The non-blocked links of an owner.
LiveLinks(owner_user_id) ==
    {r \in DOMAIN bot_user_link :
        /\ bot_user_link[r].owner_user_id = owner_user_id
        /\ ~bot_user_link[r].is_blocked}

OwnerOf(p, g) == subscription[SubOf(p, g)].owner_user_id

\* C22: every send call goes to the chat of the non-blocked link of the
\* group's owner that has the greatest link id; a group whose owner has no
\* non-blocked link is handled without a send call and all its events are
\* marked failed.
C22_DestinationIsLatestLiveLink ==
    /\ \A c \in send_log :
          \E r \in LiveLinks(OwnerOf(c.pipeline, c.ids)) :
              /\ c.chat_id = bot_user_link[r].telegram_chat_id
              /\ \A x \in LiveLinks(OwnerOf(c.pipeline, c.ids)) :
                    bot_user_link[x].id <= bot_user_link[r].id
    /\ \A i \in Insts : \A g \in d[i].done :
          LiveLinks(OwnerOf(g.pipeline, g.ids)) = {} =>
              /\ g.outcome = "failed"
              /\ \A c \in send_log : c.ids \cap g.ids = {} \/ c.pipeline # g.pipeline
              /\ \A id \in g.ids : Status(g.pipeline, id) = "failed"

\* A tick has handled a two-event group of an owner all of whose links are
\* blocked: no call, both events failed.
C22_Witness ==
    \E i \in Insts : \E g \in d[i].done :
        /\ g.pipeline = "match" /\ Cardinality(g.ids) = 2
        /\ TypeMatches("match", SubOf("match", g.ids))
        /\ LiveLinks(OwnerOf("match", g.ids)) = {}
        /\ send_log = {}
        /\ \A id \in g.ids : Status("match", id) = "failed"

\* The event's subscription has a mode that does not fit the event's table.
Mismatched(p, id) == ~TypeMatches(p, Row(p, id).subscription_id)

\* C23 (as stated): an event whose subscription's mode does not fit the
\* pipeline is never sent and never part of a send call, and once the tick
\* that reserved it has ended (returned or raised) it is failed, not left in
\* sending.
C23_MismatchFailsWithoutSend ==
    /\ \A p \in Pipelines : \A r \in DOMAIN Table(p) :
          Mismatched(p, Table(p)[r].id) =>
              /\ Table(p)[r].notify_status # "sent"
              /\ ~Attempted(p, Table(p)[r].id)
    /\ \A i \in Insts :
          d[i].pc \in {"returned", "raised"} =>
              \A e \in d[i].owned :
                  Mismatched(e[1], e[2]) => Status(e[1], e[2]) = "failed"

\* Instance i handles the group at the head of its loop in this step.
HandlesGroup(i, p) ==
    /\ d[i].pc = p \o "_send"
    /\ d'[i] # d[i]
    /\ d'[i].pc \notin {"raised", "idle"}

OtherPipeline(p) == IF p = "match" THEN "digest" ELSE "match"

C10_MessageWithinHardLimit ==
    (fmt.fn \in {"match", "digest"} /\ fmt.done) => fmt.text <= TG_MSG_HARD_LIMIT

StrictlyIncreasing(q) == \A k, l \in DOMAIN q : k < l => q[k] < q[l]

\* C33: _format_match_events_message returns, for a subscription and an
\* event list, the text its parts determine (the same for the same input);
\* the item numbers of the detail blocks are strictly increasing, the item
\* numbers of the compact lines are strictly increasing, every number is the
\* position of an event of the list, and no item is rendered in both phases
\* or twice.
C33_DeterministicOrderPreserving ==
    (fmt.fn = "match" /\ fmt.done) =>
        /\ fmt.parts = MatchParts(fmt.sub, fmt.events)
        /\ fmt.text = Clamp(fmt.parts.used)
        /\ StrictlyIncreasing(fmt.parts.detailed_indexes)
        /\ StrictlyIncreasing(fmt.parts.line_indexes)
        /\ Range(fmt.parts.detailed_indexes) \cap Range(fmt.parts.line_indexes) = {}
        /\ Range(fmt.parts.detailed_indexes) \cup Range(fmt.parts.line_indexes)
              \subseteq DOMAIN fmt.events

\* A list has been formatted whose first event did not fit as a detail
\* block and whose second did: the text has the block of item 2 and then
\* the line of item 1.
C33_Witness ==
    /\ fmt.fn = "match" /\ fmt.done
    /\ fmt.parts.detailed_indexes = <<2>>
    /\ fmt.parts.line_indexes = <<1>>

\* C34 (as stated): the items that did not fit as detail blocks are rendered
\* as compact lines in their order, and whenever an item of the list is
\* rendered neither as a detail block nor as a compact line the text
\* contains the truncated marker.
C34_OverflowIsMarked ==
    (fmt.fn = "match" /\ fmt.done) =>
        /\ \A k \in DOMAIN fmt.parts.line_indexes :
              fmt.parts.line_indexes[k] = fmt.parts.remaining_indexes[k]
        /\ Range(fmt.parts.detailed_indexes) \cup Range(fmt.parts.line_indexes)
              # DOMAIN fmt.events
                => fmt.parts.ell /\ fmt.text = fmt.joined

\* The offset a printed label stands for, in minutes.
LabelMinutes(gmt) ==
    (IF gmt.sign = "+" THEN 1 ELSE 0 - 1) * (gmt.hh * 60 + gmt.mm)

\* C35 (as stated): format_period_variant_f uses the single-day phrasing
\* exactly when the window's start and end fall on the same calendar date in
\* the display zone; the times (and dates) it prints are the window's
\* instants shifted by the zone's UTC offset at those instants, and the
\* label is the offset the start time was shifted by.
C35_PeriodInDisplayZone ==
    (fmt.fn = "period" /\ fmt.done) =>
        LET ls == fmt.window_start + OffsetAt(fmt.tz, fmt.window_start)
            le == fmt.window_end + OffsetAt(fmt.tz, fmt.window_end)
        IN  /\ fmt.period.single_day <=>
                  (ls \div MinutesPerDay) = (le \div MinutesPerDay)
            /\ fmt.period.s_date = ls \div MinutesPerDay
            /\ fmt.period.s_time = ls % MinutesPerDay
            /\ fmt.period.e_date = le \div MinutesPerDay
            /\ fmt.period.e_time = le % MinutesPerDay
            /\ LabelMinutes(fmt.period.gmt) = OffsetAt(fmt.tz, fmt.window_start)

\* C28 (as stated): the digest text the processor puts in a DigestEvent has
\* at most TG_MSG_HARD_LIMIT (4096) characters, for a model output of any
\* length.
C28_DigestTextWithinCap ==
    (fmt.fn = "digest_text" /\ fmt.done) => fmt.text <= TG_MSG_HARD_LIMIT

\* An event list whose joined parts are longer than the limit has been
\* formatted, and the text returned has exactly TG_MSG_HARD_LIMIT characters.
C10_Witness ==
    /\ fmt.fn = "match" /\ fmt.done
    /\ fmt.joined > TG_MSG_HARD_LIMIT
    /\ fmt.text = TG_MSG_HARD_LIMIT

====
